---- MODULE Spec2Model ----
(***************************************************************************)
(* The adverse impact pipeline of iopsy (src/iopsy/adverse_impact.py) on   *)
(* top of the generic Analysis base class (src/iopsy/analysis.py):         *)
(*   Analysis.__init__ -> cut -> selection_rates -> determine_referent ->  *)
(*   impact_ratios -> fet_series -> summary.                               *)
(*                                                                         *)
(* Tables are sequences of rows.  Floating point rates are kept as exact   *)
(* fractions [num, den]: a mean of booleans is one correctly rounded       *)
(* division k/n, so two rates compare as floats exactly as the fractions   *)
(* compare for the table sizes considered here.  A Python None argument is *)
(* the empty tuple <<>>, a given argument v is <<v>>.  A missing group     *)
(* label (NaN / None in the group column) is the label NaN.                *)
(***************************************************************************)
EXTENDS Integers, Sequences, FiniteSets, TLC

VARIABLES pc, data, dtype, filters, self_data, cutscore, groups, self_score,
          self_selection_rates, referent, min_ref, self_referent,
          self_effect, self_p, report, error

vars == <<pc, data, dtype, filters, self_data, cutscore, groups, self_score,
          self_selection_rates, referent, min_ref, self_referent,
          self_effect, self_p, report, error>>

\* Largest number of rows of an enumerated record table.
MaxRows == 3

\* Default of the min_ref parameter of AdverseImpact.__init__.
DefaultMinRef == 5

NaN == "NaN"
GroupLabels == {"A", "B"}
GroupValues == GroupLabels \cup {NaN}
Scores == {1, 2}
OutcomeLabels == {"hire", "reject"}

\* Python's ordering of the group labels (str.__lt__), as used by the sorted
\* group index of groupby and crosstab.
Rank(g) == CASE g = "A" -> 1 [] g = "B" -> 2 [] g = "C" -> 3 [] OTHER -> 4

---------------------------------------------------------------------------
\* Results of a call: a value, Python's None, or a raised exception.
Val(v) == [tag |-> "val", val |-> v]
NoneVal == [tag |-> "None"]
Raise(e) == [tag |-> "raise", exc |-> e]
Unset == [tag |-> "unset"]

\* Column projections data[x], data[y].
ColX(d) == [i \in 1..Len(d) |-> d[i].x]
ColY(d) == [i \in 1..Len(d) |-> d[i].y]

\* Series.isin(values) for a list of labels.
IsIn(v, values) == \E j \in 1..Len(values) : values[j] = v

\* cut with the threshold open on the passing side.
CutGt(y, ydtype, score, grps) ==
    IF score # <<>>
    THEN IF ydtype = "num"
         THEN Val([i \in 1..Len(y) |-> y[i] > score[1]])
         ELSE Raise("TypeError")
    ELSE IF grps # <<>>
    THEN LET gl == IF grps[1].isstr THEN <<grps[1].val>> ELSE grps[1].val
         IN  Val([i \in 1..Len(y) |->
                    IF ydtype = "num" THEN FALSE ELSE IsIn(y[i], gl)])
    ELSE NoneVal

\* cut(y, score, groups).  ydtype is the dtype of the outcome column: a
\* string column compared with a number raises TypeError; a number is never
\* a member of a list of labels.  With neither argument the function falls
\* off its end and returns None.
Cut(y, ydtype, score, grps) ==
    IF score # <<>>
    THEN IF ydtype = "num"
         THEN Val([i \in 1..Len(y) |-> y[i] >= score[1]])
         ELSE Raise("TypeError")
    ELSE IF grps # <<>>
    THEN LET gl == IF grps[1].isstr THEN <<grps[1].val>> ELSE grps[1].val
         IN  Val([i \in 1..Len(y) |->
                    IF ydtype = "num" THEN FALSE ELSE IsIn(y[i], gl)])
    ELSE NoneVal

---------------------------------------------------------------------------
\* Sum of f[i] over a finite set of indices.
RECURSIVE SumOver(_, _)
SumOver(f, S) ==
    IF S = {} THEN 0
    ELSE LET i == CHOOSE j \in S : TRUE IN f[i] + SumOver(f, S \ {i})

\* standard_score(x) compared with the critical value: the boolean mask
\* method(data[x]).abs() < val (less = False) or > val (less = True).
\* z[i] = (x[i] - mean) / std with std the sample deviation (ddof = 1), so
\* |z[i]| < val  iff  (n*x[i] - S)^2 * (n-1) < val^2 * n * (n*Q - S^2)
\* where S and Q are the sums of x and x^2.  With one row, or all rows
\* equal, z is NaN and both comparisons are False: both sides are 0.
StandardScoreMask(x, val, less) ==
    LET n == Len(x)
        S == SumOver(x, 1..n)
        Q == SumOver([i \in 1..n |-> x[i] * x[i]], 1..n)
        lhs(i) == (n * x[i] - S) * (n * x[i] - S) * (n - 1)
        rhs == val * val * n * (n * Q - S * S)
    IN  [i \in 1..n |-> IF less THEN lhs(i) > rhs ELSE lhs(i) < rhs]

\* data[bool_mask]: the rows whose mask is True, in order.
RECURSIVE MaskRows(_, _)
MaskRows(d, mask) ==
    IF d = <<>> THEN <<>>
    ELSE LET rest == MaskRows(Tail(d), Tail(mask))
         IN  IF Head(mask) THEN <<Head(d)>> \o rest ELSE rest

\* drop_outlier(data, x, method = standard_score, val, less) on the
\* outcome column; a string column has no mean: TypeError.
DropOutlier(d, ydtype, filt) ==
    IF ydtype # "num" THEN Raise("TypeError")
    ELSE Val(MaskRows(d, StandardScoreMask(ColY(d), filt.val, filt.less)))

\* The filter loop of Analysis.__init__ over a dict's (col, filt) items.
RECURSIVE ApplyFilters(_, _, _)
ApplyFilters(d, ydtype, filts) ==
    IF filts = <<>> THEN Val(d)
    ELSE LET r == DropOutlier(d, ydtype, Head(filts))
         IN  IF r.tag = "raise" THEN r
             ELSE ApplyFilters(r.val, ydtype, Tail(filts))

\* Analysis.__init__(data, analysis, x, y, filters): self.data, or the
\* exception raised.  filters = None has no .items(): AttributeError.
AnalysisInit(d, ydtype, flt) ==
    IF flt = <<>> THEN Raise("AttributeError")
    ELSE ApplyFilters(d, ydtype, flt[1])

---------------------------------------------------------------------------
\* Exact fractions standing for float values.
Frac(k, n) == [kind |-> "num", num |-> k, den |-> n]
FloatNaN == [kind |-> "nan", num |-> 0, den |-> 0]
FloatInf == [kind |-> "inf", num |-> 0, den |-> 0]
FracLt(a, b) == a.num * b.den < b.num * a.den
FracEq(a, b) == a.num * b.den = b.num * a.den

\* The sorted group index groupby(by) and crosstab(by, .) build: the
\* distinct labels of by, missing labels dropped (dropna), in label order.
RECURSIVE SortLabels(_)
SortLabels(S) ==
    IF S = {} THEN <<>>
    ELSE LET m == CHOOSE g \in S : \A h \in S : Rank(g) <= Rank(h)
         IN  <<m>> \o SortLabels(S \ {m})

\* The group index with missing labels kept as a group (dropna = False).
GroupIndexKeepNaN(by) == SortLabels({by[i] : i \in 1..Len(by)})

GroupIndex(by) == SortLabels({by[i] : i \in 1..Len(by)} \ {NaN})

\* selection_rates(score, by): one row per group with sr = mean of score
\* and n = count, as in the pandas releases that leave the column of group
\* labels out of a numeric aggregate, so that the result has the two
\* columns the function renames.  score = None (cut fell through) leaves concat with the
\* group column alone, whose mean does not exist: the aggregation raises
\* (TypeError or ValueError, depending on the pandas release).
GroupRows(by, g) == {i \in 1..Len(by) : by[i] = g}

SelectionRatesTable(score, by) ==
    LET idx == GroupIndex(by)
    IN  [j \in 1..Len(idx) |->
            LET rows == GroupRows(by, idx[j])
                k == Cardinality({i \in rows : score[i]})
                n == Cardinality(rows)
            IN  [g |-> idx[j], sr |-> Frac(k, n), n |-> n]]

SelectionRates(score, by, exc) ==
    IF score.tag # "val" THEN Raise(exc)
    ELSE Val(SelectionRatesTable(score.val, by))

\* Row order of a sort by 'sr' alone.
RowBeforeRateOnly(a, b) == FracLt(b.sr, a.sr)

\* Row order of sort_values(['sr', 'n'], ascending = False): a before b.
RowBefore(a, b) ==
    \/ FracLt(b.sr, a.sr)
    \/ FracEq(a.sr, b.sr) /\ a.n > b.n

\* Stable insertion of row r into a sequence sorted by RowBefore: after
\* every row that is not strictly behind it.
RECURSIVE InsertRow(_, _)
InsertRow(r, s) ==
    IF s = <<>> THEN <<r>>
    ELSE IF RowBefore(r, Head(s)) THEN <<r>> \o s
    ELSE <<Head(s)>> \o InsertRow(r, Tail(s))

\* DataFrame.sort_values(['sr', 'n'], ascending = False): a stable sort.
RECURSIVE SortValues(_)
SortValues(s) ==
    IF s = <<>> THEN <<>>
    ELSE InsertRow(s[Len(s)], SortValues(SubSeq(s, 1, Len(s) - 1)))

\* The table without the sample size floor.
FilterMinRefOff(sr, minref) == sr

\* sr[sr['n'] >= min_ref]
FilterMinRef(sr, minref) == SelectSeq(sr, LAMBDA r : r.n >= minref)

\* determine_referent(sr, min_ref): .index[0] of the sorted eligible rows;
\* indexing an empty index raises IndexError.
DetermineReferent(sr, minref) ==
    LET s == SortValues(FilterMinRef(sr, minref))
    IN  IF s = <<>> THEN Raise("IndexError") ELSE Val(s[1].g)

Keys(tab) == {tab[j].g : j \in 1..Len(tab)}
Row(tab, g) == tab[CHOOSE j \in 1..Len(tab) : tab[j].g = g]

\* Float division a / b of two rates as numpy does it: x/0 is inf for
\* x > 0 and NaN for x = 0, with no exception.
FloatDiv(a, b) ==
    IF b.num = 0
    THEN IF a.num = 0 THEN FloatNaN ELSE FloatInf
    ELSE Frac(a.num * b.den, a.den * b.num)

\* impact_ratios(sr, referent): sr['sr'] / sr.loc[referent, 'sr'];
\* .loc of a label that is not in the index raises KeyError.
ImpactRatios(sr, ref) ==
    IF ref \notin Keys(sr) THEN Raise("KeyError")
    ELSE Val([j \in 1..Len(sr) |->
                [g |-> sr[j].g, ir |-> FloatDiv(sr[j].sr, Row(sr, ref).sr)]])

---------------------------------------------------------------------------
\* crosstab(by, score): one row per group of the sorted group index, one
\* column per distinct value of score among the rows that have a group
\* (False before True), each cell the count of rows.
CrosstabColumns(by, score) ==
    LET seen == {score[i] : i \in {j \in 1..Len(by) : by[j] # NaN}}
    IN  (IF FALSE \in seen THEN <<FALSE>> ELSE <<>>)
            \o (IF TRUE \in seen THEN <<TRUE>> ELSE <<>>)

Crosstab(by, score) ==
    LET idx == GroupIndex(by)
        cols == CrosstabColumns(by, score)
    IN  [j \in 1..Len(idx) |->
            [g |-> idx[j],
             counts |-> [c \in 1..Len(cols) |->
                Cardinality({i \in GroupRows(by, idx[j]) : score[i] = cols[c]})]]]

\* tab.index.drop(referent): the other groups in index order.
DropLabel(idx, ref) == SelectSeq(idx, LAMBDA g : g # ref)

\* contingency_generator(by, score, referent): for every other group the
\* pair (focal, tab.loc[[focal, referent]]); dropping a label that is not
\* in the index raises KeyError.
ContingencyGenerator(by, score, ref) ==
    LET tab == Crosstab(by, score)
    IN  IF ref \notin Keys(tab) THEN Raise("KeyError")
        ELSE LET focals == DropLabel(GroupIndex(by), ref)
             IN  Val([j \in 1..Len(focals) |->
                        [focal |-> focals[j],
                         tab |-> <<Row(tab, focals[j]).counts,
                                   Row(tab, ref).counts>>]])

\* Binomial coefficient.
RECURSIVE Binom(_, _)
Binom(n, k) ==
    IF k < 0 \/ k > n THEN 0
    ELSE IF k = 0 THEN 1
    ELSE (Binom(n, k - 1) * (n - k + 1)) \div k

\* The one-table-short sum: only the strictly less probable tables.
RECURSIVE TailWeightsStrict(_, _, _, _, _, _)
TailWeightsStrict(x, hi, n1, n2, n, w0) ==
    IF x > hi THEN 0
    ELSE LET w == Binom(n1, x) * Binom(n2, n - x)
         IN  (IF w < w0 THEN w ELSE 0)
                + TailWeightsStrict(x + 1, hi, n1, n2, n, w0)

\* Sum over lo..hi of the hypergeometric weights that do not exceed w0.
RECURSIVE TailWeights(_, _, _, _, _, _)
TailWeights(x, hi, n1, n2, n, w0) ==
    IF x > hi THEN 0
    ELSE LET w == Binom(n1, x) * Binom(n2, n - x)
         IN  (IF w <= w0 THEN w ELSE 0) + TailWeights(x + 1, hi, n1, n2, n, w0)

\* scipy.stats.fisher_exact(table)[1], two-sided: a table that is not 2x2
\* raises ValueError; a zero margin gives p = 1; otherwise the sum of the
\* probabilities of the tables with the same margins that are no more
\* probable than the observed one.
FisherExact(table) ==
    IF Len(table[1]) # 2 \/ Len(table[2]) # 2 THEN Raise("ValueError")
    ELSE LET a == table[1][1]
             b == table[1][2]
             c == table[2][1]
             d == table[2][2]
             n1 == a + b
             n2 == c + d
             n == a + c
         IN  IF n1 = 0 \/ n2 = 0 \/ n = 0 \/ b + d = 0 THEN Val(Frac(1, 1))
             ELSE LET lo == IF n - n2 > 0 THEN n - n2 ELSE 0
                      hi == IF n1 < n THEN n1 ELSE n
                      w0 == Binom(n1, a) * Binom(n2, n - a)
                  IN  Val(Frac(TailWeights(lo, hi, n1, n2, n, w0),
                               Binom(n1 + n2, n)))

\* fet_series(by, score, referent): the loop over the generator; the first
\* exception ends it, otherwise the p values indexed by focal group.
FetSeries(by, score, ref) ==
    LET gen == ContingencyGenerator(by, score, ref)
    IN  IF gen.tag = "raise" THEN gen
        ELSE LET tests == [j \in 1..Len(gen.val) |-> FisherExact(gen.val[j].tab)]
             IN  IF \E j \in 1..Len(tests) : tests[j].tag = "raise"
                 THEN tests[CHOOSE j \in 1..Len(tests) :
                              /\ tests[j].tag = "raise"
                              /\ \A h \in 1..(j - 1) : tests[h].tag # "raise"]
                 ELSE Val([j \in 1..Len(tests) |->
                            [g |-> gen.val[j].focal, fet_p |-> tests[j].val]])

\* summary(): concat([selection_rates, effect, p], axis = 1), one row per
\* group of the union of the indexes; a group without a p value gets NaN.
Summary(sr, effect, p) ==
    [j \in 1..Len(sr) |->
        [g |-> sr[j].g, sr |-> sr[j].sr, n |-> sr[j].n,
         ir |-> Row(effect, sr[j].g).ir,
         fet_p |-> IF sr[j].g \in Keys(p) THEN Row(p, sr[j].g).fet_p
                   ELSE FloatNaN]]

---------------------------------------------------------------------------
\* The arguments a caller passes.
FilterArgs ==
    { <<>>,                                   \* filters = None (the default)
      << <<>> >>,                             \* filters = {}
      << << [val |-> 1, less |-> FALSE] >> >> }  \* {y: {'val': 1}}
CutscoreArgs == {<<>>} \cup {<<c>> : c \in Scores}
GroupsArgs ==
    { <<>>,
      << [isstr |-> TRUE, val |-> "hire"] >>,
      << [isstr |-> FALSE, val |-> <<"hire", "reject">>] >> }
ReferentArgs == {<<>>} \cup {<<g>> : g \in GroupLabels \cup {"C"}}
MinRefArgs == {1, 2, DefaultMinRef}

\* Scenario D of the specification: group A with 8 passing and 2 failing
\* records, group B with 2 passing and 8 failing, scored 2 (pass) or 1.
ScenarioD ==
    [i \in 1..20 |->
        [x |-> IF i <= 10 THEN "A" ELSE "B",
         y |-> IF i <= 8 \/ i \in {11, 12} THEN 2 ELSE 1]]

Init ==
    /\ pc = "new"
    /\ \/ /\ dtype = "num"
          /\ \E n \in 1..MaxRows :
                data \in [1..n -> [x : GroupValues, y : Scores]]
       \/ /\ dtype = "cat"
          /\ \E n \in 1..MaxRows :
                data \in [1..n -> [x : GroupValues, y : OutcomeLabels]]
       \/ /\ dtype = "num"
          /\ data = ScenarioD
    /\ filters = Unset
    /\ self_data = Unset
    /\ cutscore = Unset
    /\ groups = Unset
    /\ self_score = Unset
    /\ self_selection_rates = Unset
    /\ referent = Unset
    /\ min_ref = Unset
    /\ self_referent = Unset
    /\ self_effect = Unset
    /\ self_p = Unset
    /\ report = Unset
    /\ error = "none"

\* An exception leaves the constructor: no object, no report.
Fail(exc) ==
    /\ pc' = "failed"
    /\ error' = exc

\* super().__init__(data, analysis = 'AdverseImpact', x, y, filters)
AnalysisInitStep ==
    /\ pc = "new"
    /\ \E flt \in FilterArgs :
        LET r == AnalysisInit(data, dtype, flt)
        IN  /\ filters' = Val(flt)
            /\ IF r.tag = "raise"
               THEN Fail(r.exc) /\ UNCHANGED self_data
               ELSE /\ self_data' = r
                    /\ pc' = "cut"
                    /\ UNCHANGED error
    /\ UNCHANGED <<data, dtype, cutscore, groups, self_score,
                   self_selection_rates, referent, min_ref, self_referent,
                   self_effect, self_p, report>>

\* self.score = cut(data[y], score = cutscore, groups = groups)
CutStep ==
    /\ pc = "cut"
    /\ \E cs \in CutscoreArgs, gs \in GroupsArgs :
        LET r == Cut(ColY(data), dtype, cs, gs)
        IN  /\ cutscore' = Val(cs)
            /\ groups' = Val(gs)
            /\ IF r.tag = "raise"
               THEN Fail(r.exc) /\ UNCHANGED self_score
               ELSE /\ self_score' = r
                    /\ pc' = "selection_rates"
                    /\ UNCHANGED error
    /\ UNCHANGED <<data, dtype, filters, self_data, self_selection_rates,
                   referent, min_ref, self_referent, self_effect, self_p,
                   report>>

\* self.selection_rates = selection_rates(self.score, data[x])
SelectionRatesStep ==
    /\ pc = "selection_rates"
    /\ \E exc \in {"TypeError", "ValueError"} :
        LET r == SelectionRates(self_score, ColX(data), exc)
        IN  IF r.tag = "raise"
            THEN Fail(r.exc) /\ UNCHANGED self_selection_rates
            ELSE /\ self_selection_rates' = r
                 /\ pc' = "referent"
                 /\ UNCHANGED error
    /\ UNCHANGED <<data, dtype, filters, self_data, cutscore, groups,
                   self_score, referent, min_ref, self_referent, self_effect,
                   self_p, report>>

\* The referent: the caller's, or determine_referent(self.selection_rates,
\* min_ref = min_ref).
SelectReferent(sr, ref, minref) ==
    IF ref # <<>> THEN Val(ref[1]) ELSE DetermineReferent(sr, minref)

ReferentStep ==
    /\ pc = "referent"
    /\ \E ref \in ReferentArgs, mr \in MinRefArgs :
        LET r == SelectReferent(self_selection_rates.val, ref, mr)
        IN  /\ referent' = Val(ref)
            /\ min_ref' = Val(mr)
            /\ IF r.tag = "raise"
               THEN Fail(r.exc) /\ UNCHANGED self_referent
               ELSE /\ self_referent' = r
                    /\ pc' = "impact_ratios"
                    /\ UNCHANGED error
    /\ UNCHANGED <<data, dtype, filters, self_data, cutscore, groups,
                   self_score, self_selection_rates, self_effect, self_p,
                   report>>

\* self.effect = impact_ratios(self.selection_rates, referent = self.referent)
ImpactRatiosStep ==
    /\ pc = "impact_ratios"
    /\ LET r == ImpactRatios(self_selection_rates.val, self_referent.val)
       IN  IF r.tag = "raise"
           THEN Fail(r.exc) /\ UNCHANGED self_effect
           ELSE /\ self_effect' = r
                /\ pc' = "fet_series"
                /\ UNCHANGED error
    /\ UNCHANGED <<data, dtype, filters, self_data, cutscore, groups,
                   self_score, self_selection_rates, referent, min_ref,
                   self_referent, self_p, report>>

\* self.p = fet_series(data[x], self.score, self.referent); the constructor
\* returns.
FetSeriesStep ==
    /\ pc = "fet_series"
    /\ LET r == FetSeries(ColX(data), self_score.val, self_referent.val)
       IN  IF r.tag = "raise"
           THEN Fail(r.exc) /\ UNCHANGED self_p
           ELSE /\ self_p' = r
                /\ pc' = "built"
                /\ UNCHANGED error
    /\ UNCHANGED <<data, dtype, filters, self_data, cutscore, groups,
                   self_score, self_selection_rates, referent, min_ref,
                   self_referent, self_effect, report>>

\* summary()
SummaryStep ==
    /\ pc = "built"
    /\ report' = Val(Summary(self_selection_rates.val, self_effect.val,
                             self_p.val))
    /\ pc' = "summary"
    /\ UNCHANGED <<data, dtype, filters, self_data, cutscore, groups,
                   self_score, self_selection_rates, referent, min_ref,
                   self_referent, self_effect, self_p, error>>

Next ==
    \/ AnalysisInitStep
    \/ CutStep
    \/ SelectionRatesStep
    \/ ReferentStep
    \/ ImpactRatiosStep
    \/ FetSeriesStep
    \/ SummaryStep

Spec == Init /\ [][Next]_vars
---------------------------------------------------------------------------
\* Notions the properties below are stated in, taken from the record table
\* itself and not from the pipeline's intermediate tables.
RowsOf(g) == {i \in 1..Len(data) : data[i].x = g}
GroupsPresent == {data[i].x : i \in 1..Len(data)}
PassingLabels(gs) ==
    IF gs[1].isstr THEN {gs[1].val}
    ELSE {gs[1].val[j] : j \in 1..Len(gs[1].val)}
RECURSIVE SumN(_)
SumN(tab) == IF tab = <<>> THEN 0 ELSE Head(tab).n + SumN(Tail(tab))
CutDone == self_score.tag # "unset" \/ (pc = "failed" /\ cutscore.tag = "val")
Built == pc \in {"built", "summary"}

\* C1: cut returns a boolean vector aligned with the outcomes; with a
\* threshold, element i is True iff outcome[i] >= threshold; with passing
\* labels only, element i is True iff outcome[i] is one of the labels, a
\* single string standing for the one-element set.
C1_CutClassifies ==
    self_score.tag = "val" =>
        /\ DOMAIN self_score.val = 1..Len(data)
        /\ cutscore.val # <<>> =>
              \A i \in 1..Len(data) :
                 self_score.val[i] = (data[i].y >= cutscore.val[1])
        /\ cutscore.val = <<>> =>
              \A i \in 1..Len(data) :
                 self_score.val[i] =
                    (dtype = "cat" /\ data[i].y \in PassingLabels(groups.val))

\* C1 witness: numeric mode, an outcome equal to the threshold passes and a
\* smaller one fails.
C1_Witness ==
    /\ self_score.tag = "val"
    /\ cutscore.val # <<>>
    /\ \E i, j \in 1..Len(data) :
          /\ data[i].y = cutscore.val[1] /\ self_score.val[i]
          /\ data[j].y < cutscore.val[1] /\ ~self_score.val[j]

\* C2: a call of cut with neither or both of threshold and passing labels
\* ends in a configuration error and yields no pass/fail vector.
C2_ExactlyOneRequired ==
    (CutDone /\ ((cutscore.val = <<>>) = (groups.val = <<>>))) =>
        /\ error = "ConfigurationError"
        /\ self_score.tag = "unset"

\* C3 as stated: one row per distinct group value of the input, each with
\* its record count and exact passing fraction, the counts summing to the
\* total number of records.
C3_SizesSumToTotal ==
    self_selection_rates.tag = "val" =>
        LET sr == self_selection_rates.val
        IN  /\ Keys(sr) = GroupsPresent
            /\ SumN(sr) = Len(data)

\* C3 amended: one row per distinct non-missing group value of the input
\* (none invented, none dropped, none twice); n is the number of records of
\* the group, sr the exact fraction of them that pass, within [0, 1]; the
\* sizes sum to the number of records whose group value is not missing.
C3_SelectionRates ==
    self_selection_rates.tag = "val" =>
        LET sr == self_selection_rates.val
        IN  /\ Keys(sr) = GroupsPresent \ {NaN}
            /\ Cardinality(Keys(sr)) = Len(sr)
            /\ \A j \in 1..Len(sr) :
                  /\ sr[j].n = Cardinality(RowsOf(sr[j].g))
                  /\ sr[j].n >= 1
                  /\ sr[j].sr.kind = "num"
                  /\ sr[j].sr.den = sr[j].n
                  /\ sr[j].sr.num =
                        Cardinality({i \in RowsOf(sr[j].g) : self_score.val[i]})
                  /\ 0 <= sr[j].sr.num /\ sr[j].sr.num <= sr[j].sr.den
            /\ SumN(sr) = Cardinality({i \in 1..Len(data) : data[i].x # NaN})

\* C3 witness: two groups of different rates, and a record with no group.
C3_Witness ==
    /\ self_selection_rates.tag = "val"
    /\ Len(self_selection_rates.val) = 2
    /\ self_selection_rates.val[1].sr.num = 1
    /\ self_selection_rates.val[2].sr.num = 0
    /\ NaN \in GroupsPresent

\* The referent the pipeline infers from the record table d under the
\* arguments of this run.
InferredReferent(d) ==
    SelectReferent(
        SelectionRates(Cut(ColY(d), dtype, cutscore.val, groups.val),
                       ColX(d), "TypeError").val,
        <<>>, min_ref.val)
Permuted(d, f) == [i \in 1..Len(d) |-> d[f[i]]]
Eligible(sr, minref) == {j \in 1..Len(sr) : sr[j].n >= minref}
ReferentInferred == referent.tag = "val" /\ referent.val = <<>>

\* C4: with no explicit referent and some group of n >= min_ref,
\* determine_referent returns a group of n >= min_ref whose rate is the
\* largest among those groups and whose size is the largest among the ones
\* at that rate, and the same group for every order of the rows of the
\* record table.
C4_ReferentIsBest ==
    (ReferentInferred
        /\ Eligible(self_selection_rates.val, min_ref.val) # {}) =>
        /\ self_referent.tag = "val"
        /\ LET sr == self_selection_rates.val
               el == Eligible(sr, min_ref.val)
               r == Row(sr, self_referent.val)
           IN  /\ self_referent.val \in {sr[j].g : j \in el}
               /\ \A j \in el : ~FracLt(r.sr, sr[j].sr)
               /\ \A j \in el : FracEq(sr[j].sr, r.sr) => sr[j].n <= r.n
        /\ (pc = "impact_ratios" /\ Len(data) <= MaxRows + 1) =>
              \A f \in Permutations(1..Len(data)) :
                 InferredReferent(Permuted(data, f)) = self_referent

\* C4 witness: two eligible groups tie on rate and size, the record of the
\* one chosen is not the first of the table.
C4_Witness ==
    /\ pc = "impact_ratios"
    /\ ReferentInferred
    /\ LET sr == self_selection_rates.val
       IN  /\ Len(sr) = 2
           /\ Eligible(sr, min_ref.val) = {1, 2}
           /\ FracEq(sr[1].sr, sr[2].sr)
           /\ sr[1].n = sr[2].n
    /\ data[1].x # self_referent.val

\* C5 as stated: in every report built the referent is a group of the
\* statistics table with n >= min_ref, inferred or explicit.
C5_ReferentMeetsFloor ==
    Built =>
        /\ self_referent.val \in Keys(self_selection_rates.val)
        /\ Row(self_selection_rates.val, self_referent.val).n >= min_ref.val

\* C5 amended: in every report built the referent is a group of the
\* statistics table, and an inferred referent has n >= min_ref.
C5_ReferentInTable ==
    Built =>
        /\ self_referent.val \in Keys(self_selection_rates.val)
        /\ ReferentInferred =>
              Row(self_selection_rates.val, self_referent.val).n >= min_ref.val

\* C5 witness: a report built on an inferred referent while another group
\* is below the floor.
C5_Witness ==
    /\ Built
    /\ ReferentInferred
    /\ \E j \in 1..Len(self_selection_rates.val) :
          self_selection_rates.val[j].n < min_ref.val

\* C6: with no group of n >= min_ref, referent selection fails with an
\* InsufficientDataError and sets no referent.
C6_InsufficientData ==
    (ReferentInferred
        /\ Eligible(self_selection_rates.val, min_ref.val) = {}) =>
        /\ pc = "failed"
        /\ error = "InsufficientDataError"
        /\ self_referent.tag = "unset"

\* C7: an explicit referent that is no group of the statistics table makes
\* the referent selection fail with a configuration error, before any
\* impact ratio or p value is computed.
C7_ExplicitReferentValidated ==
    (referent.tag = "val" /\ referent.val # <<>>
        /\ referent.val[1] \notin Keys(self_selection_rates.val)) =>
        /\ pc = "failed"
        /\ error = "ConfigurationError"
        /\ self_referent.tag = "unset"
        /\ self_effect.tag = "unset"
        /\ self_p.tag = "unset"

\* C8: every impact ratio returned is the group's rate over the referent's
\* rate, a finite number: with a referent rate of 0 nothing is returned and
\* an undefined-statistic error is signalled.
C8_RatioDefinedOrSignalled ==
    /\ self_effect.tag = "val" =>
          LET sr == self_selection_rates.val
              ref == Row(sr, self_referent.val)
          IN  \A j \in 1..Len(sr) :
                 /\ self_effect.val[j].g = sr[j].g
                 /\ self_effect.val[j].ir.kind = "num"
                 /\ self_effect.val[j].ir.num * sr[j].sr.den * ref.sr.num
                       = self_effect.val[j].ir.den * sr[j].sr.num * ref.sr.den
    /\ (self_referent.tag = "val" /\ pc # "impact_ratios"
          /\ self_referent.val \in Keys(self_selection_rates.val)
          /\ Row(self_selection_rates.val, self_referent.val).sr.num = 0) =>
          /\ error = "UndefinedStatisticError"
          /\ self_effect.tag = "unset"

\* A run of the pipeline on Scenario D with threshold 2 and referent A,
\* up to the report.
ScenarioDRun ==
    /\ pc = "summary"
    /\ dtype = "num" /\ Len(data) = 20 /\ data = ScenarioD
    /\ cutscore.val = <<2>>
    /\ self_referent.val = "A"
ScenarioDTable ==
    ContingencyGenerator(ColX(data), self_score.val, self_referent.val).val[1].tab
ReportRow(g) == Row(report.val, g)

\* C9 as stated: on Scenario D with referent A the impact ratio of B is
\* 0.25, the table tested is [[8,2],[2,8]] and the two-sided p value is
\* about 0.046 (within 0.0005).
C9_ScenarioD_P046 ==
    ScenarioDRun =>
        /\ FracEq(ReportRow("B").ir, Frac(1, 4))
        /\ ScenarioDTable = << <<8, 2>>, <<2, 8>> >>
        /\ ~FracLt(ReportRow("B").fet_p, Frac(455, 10000))
        /\ ~FracLt(Frac(465, 10000), ReportRow("B").fet_p)

\* C9 amended: on Scenario D with referent A the impact ratio of B is 0.25,
\* the table tested is [[8,2],[2,8]] and the two-sided p value is
\* 4252/184756, about 0.023 (within 0.0005).
C9_ScenarioD_P023 ==
    ScenarioDRun =>
        /\ ReportRow("B").ir.kind = "num"
        /\ FracEq(ReportRow("B").ir, Frac(1, 4))
        /\ ScenarioDTable = << <<8, 2>>, <<2, 8>> >>
        /\ ReportRow("B").fet_p.kind = "num"
        /\ FracEq(ReportRow("B").fet_p, Frac(4252, 184756))
        /\ ~FracLt(ReportRow("B").fet_p, Frac(225, 10000))
        /\ ~FracLt(Frac(235, 10000), ReportRow("B").fet_p)

\* C9 witness: the report of Scenario D with the referent inferred.
C9_Witness ==
    /\ ScenarioDRun
    /\ ReferentInferred
    /\ Keys(report.val) = {"A", "B"}

\* C10: a run that fails leaves no report, and every report returned is
\* complete: each group has its selection rate, its sample size, a finite
\* impact ratio and, but for the referent, a p value.
C10_CompleteReportOrNone ==
    /\ pc = "failed" => report.tag = "unset"
    /\ pc = "summary" =>
          /\ Keys(report.val) = GroupsPresent \ {NaN}
          /\ \A j \in 1..Len(report.val) :
                /\ report.val[j].sr.kind = "num"
                /\ report.val[j].n >= 1
                /\ report.val[j].ir.kind = "num"
                /\ report.val[j].g # self_referent.val =>
                      report.val[j].fet_p.kind = "num"

\* The 2x2 table of counts (fail, pass) of group g over those of the
\* referent, counted on the record table and the pass/fail vector.
CountsOf(g) ==
    << Cardinality({i \in RowsOf(g) : ~self_score.val[i]}),
       Cardinality({i \in RowsOf(g) : self_score.val[i]}) >>
TableAgainstReferent(g) == << CountsOf(g), CountsOf(self_referent.val) >>

\* C11: the report of summary has one row per group; the referent's row has
\* impact ratio exactly 1.0 and no p value; every other row has the p value
\* of the exact test of its group against the referent.
C11_ReportRows ==
    pc = "summary" =>
        /\ Keys(report.val) = GroupsPresent \ {NaN}
        /\ Len(report.val) = Cardinality(Keys(report.val))
        /\ \A j \in 1..Len(report.val) :
              IF report.val[j].g = self_referent.val
              THEN /\ report.val[j].ir.kind = "num"
                   /\ report.val[j].ir.num = report.val[j].ir.den
                   /\ report.val[j].fet_p.kind = "nan"
              ELSE /\ report.val[j].fet_p.kind = "num"
                   /\ report.val[j].fet_p =
                         FisherExact(TableAgainstReferent(report.val[j].g)).val

\* The rows the filters kept, and the records of group g among them.
FilteredRowsOf(g) ==
    {i \in 1..Len(self_data.val) : self_data.val[i].x = g}
FiltersDroppedRows ==
    self_data.tag = "val" /\ Len(self_data.val) < Len(data)

\* C12: when the filters removed rows, the report is computed from the
\* filtered table only: the pass/fail vector has one element per kept row,
\* the report has one row per group of the kept rows, each with the number
\* of kept records of its group as sample size and the fraction of them
\* that pass as selection rate.
C12_ReportOnFilteredRows ==
    (pc = "summary" /\ FiltersDroppedRows) =>
        /\ DOMAIN self_score.val = 1..Len(self_data.val)
        /\ Keys(report.val) =
              {self_data.val[i].x : i \in 1..Len(self_data.val)} \ {NaN}
        /\ \A j \in 1..Len(report.val) :
              /\ report.val[j].n = Cardinality(FilteredRowsOf(report.val[j].g))
              /\ report.val[j].sr.den =
                    Cardinality(FilteredRowsOf(report.val[j].g))

\* C13: with the filter argument left at its default, None, the base
\* constructor applies no filter and keeps every row of the table, and the
\* run does not stop there: it goes on to the classifier.
C13_DefaultFiltersComplete ==
    (filters.tag = "val" /\ filters.val = <<>>) =>
        /\ error # "AttributeError"
        /\ self_data.tag = "val"
        /\ self_data.val = data
        /\ pc # "new"

====
